---- MODULE Spec2Model ----
(***************************************************************************)
(* Marketing Metrics CLI (main.go): one run of the program, from the       *)
(* parsed flags to the exit status.                                        *)
(*                                                                         *)
(* Representation.                                                         *)
(*  - A Go string is a sequence of one-character strings, so that          *)
(*    strings.ToLower, strings.TrimSpace, strings.ReplaceAll and           *)
(*    strconv.ParseFloat are computed character by character.              *)
(*  - The five raw measures are integers (the model's input files hold     *)
(*    integer literals only).  A ratio produced by round2 is held in       *)
(*    hundredths: ROAS = 497 stands for 4.97.  --min-roas is held in       *)
(*    hundredths too.  float64 division and math.Round are computed        *)
(*    exactly on the rational value.                                       *)
(*  - sort.Slice is the library's contract: some permutation in which no   *)
(*    element is `less` than an element before it; which one is not        *)
(*    specified (sort.Slice is documented as not stable).                  *)
(***************************************************************************)
EXTENDS Integers, Sequences, FiniteSets, TLC

VARIABLES
    filePath,    \* --file
    sortBy,      \* --sort
    minROAS,     \* --min-roas, in hundredths
    file,        \* what os.Open + csv.ReadAll give for filePath
    pc,          \* position in main
    campaigns,   \* []Campaign returned by loadCSV
    loadErr,     \* error returned by loadCSV (NoErr when nil)
    unsorted,    \* `all` as the filter loop left it (history of `all`)
    all,         \* []Metrics
    total,       \* Metrics of the TOTAL record
    stderr,      \* messages written to os.Stderr
    printed,     \* the header, table and summary were written to stdout
    bestROAS,    \* record named on the "Best ROAS" line
    lowestCPA,   \* record named on the "Lowest CPA" line
    exitStatus   \* process exit status, Running until the process ends

vars == <<filePath, sortBy, minROAS, file, pc, campaigns, loadErr, unsorted,
          all, total, stderr, printed, bestROAS, lowestCPA, exitStatus>>

\* ------------------------------------------------------------------ bounds

\* Largest number of data rows in an input file.
MaxRows == 3

\* Largest number of data rows in an input file whose header row is not the
\* standard one.
MaxOtherRows == 1

\* ----------------------------------------------------------------- strings

Digits == {"0", "1", "2", "3", "4", "5", "6", "7", "8", "9"}

DigitVal(ch) ==
    CASE ch = "0" -> 0 [] ch = "1" -> 1 [] ch = "2" -> 2 [] ch = "3" -> 3
      [] ch = "4" -> 4 [] ch = "5" -> 5 [] ch = "6" -> 6 [] ch = "7" -> 7
      [] ch = "8" -> 8 [] ch = "9" -> 9

LowerOf(ch) ==
    CASE ch = "A" -> "a" [] ch = "C" -> "c" [] ch = "D" -> "d" [] ch = "E" -> "e"
      [] ch = "I" -> "i" [] ch = "M" -> "m" [] ch = "N" -> "n" [] ch = "O" -> "o"
      [] ch = "P" -> "p" [] ch = "R" -> "r" [] ch = "S" -> "s" [] ch = "T" -> "t"
      [] ch = "U" -> "u" [] ch = "V" -> "v" [] ch = "K" -> "k" [] ch = "L" -> "l"
      [] OTHER -> ch

\* strings.ToLower
ToLower(s) == [i \in 1..Len(s) |-> LowerOf(s[i])]

RECURSIVE TrimLeft(_)
TrimLeft(s) == IF s # <<>> /\ Head(s) = " " THEN TrimLeft(Tail(s)) ELSE s

RECURSIVE TrimRight(_)
TrimRight(s) ==
    IF s # <<>> /\ s[Len(s)] = " " THEN TrimRight(SubSeq(s, 1, Len(s) - 1)) ELSE s

\* strings.TrimSpace
TrimSpace(s) == TrimRight(TrimLeft(s))

\* strings.ReplaceAll(s, ",", "")
RemoveCommas(s) == SelectSeq(s, LAMBDA ch : ch # ",")

RECURSIVE DigitsValue(_, _)
DigitsValue(s, acc) ==
    IF s = <<>> THEN acc ELSE DigitsValue(Tail(s), 10 * acc + DigitVal(Head(s)))

\* strconv.ParseFloat(s, 64) on the model's alphabet: an optional sign and
\* one or more decimal digits give the number, anything else is an error.
ParseFloat(s) ==
    LET signed == s # <<>> /\ Head(s) \in {"+", "-"}
        body   == IF signed THEN Tail(s) ELSE s
    IN  IF body # <<>> /\ \A i \in 1..Len(body) : body[i] \in Digits
        THEN [ok |-> TRUE,
              v  |-> IF signed /\ Head(s) = "-" THEN 0 - DigitsValue(body, 0)
                     ELSE DigitsValue(body, 0)]
        ELSE [ok |-> FALSE, v |-> 0]

parseFloat(s) == ParseFloat(TrimSpace(RemoveCommas(s)))

\* ----------------------------------------------------------------- metrics

Abs(x) == IF x < 0 THEN 0 - x ELSE x

\* Faulty variant of safe: a zero denominator gives a, not 0.
safeReturnsNumerator(a, b) == IF b = 0 THEN <<a, 1>> ELSE <<a, b>>

\* a / b as the exact fraction <<numerator, denominator>>; 0 when b = 0.
safe(a, b) == IF b = 0 THEN <<0, 1>> ELSE <<a, b>>

\* q * k
Times(q, k) == <<q[1] * k, q[2]>>

\* math.Round(n / d): nearest integer, halves away from zero.
Round(n, d) ==
    LET mag == (2 * Abs(n) + Abs(d)) \div (2 * Abs(d))
    IN  IF (n < 0) # (d < 0) THEN 0 - mag ELSE mag

\* Faulty variant of round2: the digits after the second decimal are cut off.
round2Truncates(q) ==
    LET mag == Abs(q[1] * 100) \div Abs(q[2])
    IN  IF (q[1] < 0) # (q[2] < 0) THEN 0 - mag ELSE mag

\* math.Round(v*100) / 100, the result held in hundredths.
round2(q) == Round(q[1] * 100, q[2])

computeMetrics(c) ==
    [Name        |-> c.Name,
     CTR         |-> round2(Times(safe(c.Clicks, c.Impressions), 100)),
     CVR         |-> round2(Times(safe(c.Conversions, c.Clicks), 100)),
     CPC         |-> round2(safe(c.Spend, c.Clicks)),
     CPA         |-> round2(safe(c.Spend, c.Conversions)),
     ROAS        |-> round2(safe(c.Revenue, c.Spend)),
     RevPerConv  |-> round2(safe(c.Revenue, c.Conversions)),
     Spend       |-> c.Spend,
     Revenue     |-> c.Revenue,
     Impressions |-> c.Impressions,
     Clicks      |-> c.Clicks,
     Conversions |-> c.Conversions]

\* ------------------------------------------------------------- CSV parsing

colName        == <<"c", "a", "m", "p", "a", "i", "g", "n", "_", "n", "a", "m", "e">>
colImpressions == <<"i", "m", "p", "r", "e", "s", "s", "i", "o", "n", "s">>
colClicks      == <<"c", "l", "i", "c", "k", "s">>
colConversions == <<"c", "o", "n", "v", "e", "r", "s", "i", "o", "n", "s">>
colSpend       == <<"s", "p", "e", "n", "d">>
colRevenue     == <<"r", "e", "v", "e", "n", "u", "e">>

requiredCols ==
    <<colName, colImpressions, colClicks, colConversions, colSpend, colRevenue>>

NoErr == [kind |-> "nil", row |-> 0, col |-> <<>>]

Err(kind, row, col) == [kind |-> kind, row |-> row, col |-> col]

\* header[strings.ToLower(strings.TrimSpace(h))] = i, for every cell of the
\* header row: the map from a normalised name to the position of the last
\* cell that carries it (0 stands for a name the map does not hold).
headerMap(hdr) ==
    LET norm == [i \in 1..Len(hdr) |-> ToLower(TrimSpace(hdr[i]))]
        last(col) == LET at == {i \in 1..Len(hdr) : norm[i] = col}
                     IN  IF at = {} THEN 0
                         ELSE CHOOSE i \in at : \A j \in at : j <= i
    IN  [k \in 1..Len(requiredCols) |-> last(requiredCols[k])]

\* Positions of requiredCols in a headerMap.
iName        == 1
iImpressions == 2
iClicks      == 3
iConversions == 4
iSpend       == 5
iRevenue     == 6

\* The columns the row loop parses, in the order it parses them.
numericCols == <<iImpressions, iClicks, iConversions, iSpend, iRevenue>>

\* One iteration of the row loop for rows[1:][i] (i counted from 0): the
\* five parse calls in order, the first error returned as it is met.
ParseRow(row, header, i) ==
    LET field == [k \in 1..Len(numericCols) |-> parseFloat(row[header[numericCols[k]]])]
        bad   == {k \in 1..Len(numericCols) : ~field[k].ok}
        first == CHOOSE k \in bad : \A j \in bad : k <= j
    IN  IF bad # {}
        THEN [ok |-> FALSE, err |-> Err("field", i + 2, requiredCols[numericCols[first]])]
        ELSE [ok |-> TRUE,
              c  |-> [Name        |-> TrimSpace(row[header[iName]]),
                      Impressions |-> field[1].v,
                      Clicks      |-> field[2].v,
                      Conversions |-> field[3].v,
                      Spend       |-> field[4].v,
                      Revenue     |-> field[5].v]]

RECURSIVE LoadRows(_, _, _, _)
LoadRows(data, header, i, acc) ==
    IF i >= Len(data) THEN [campaigns |-> acc, err |-> NoErr]
    ELSE IF Len(data[i + 1]) = 0 THEN LoadRows(data, header, i + 1, acc)
    ELSE LET r == ParseRow(data[i + 1], header, i)
         IN  IF r.ok THEN LoadRows(data, header, i + 1, Append(acc, r.c))
             ELSE [campaigns |-> <<>>, err |-> r.err]

\* f is what the file system and the csv reader give: status "noent" when
\* os.Open fails, "badcsv" when ReadAll fails (a quoting error, a record
\* whose field count differs from the first record's), else "ok" with the
\* records read.
loadCSV(f) ==
    IF f.status = "noent" THEN [campaigns |-> <<>>, err |-> Err("open", 0, <<>>)]
    ELSE IF f.status = "badcsv" THEN [campaigns |-> <<>>, err |-> Err("csv", 0, <<>>)]
    ELSE IF Len(f.rows) < 2 THEN [campaigns |-> <<>>, err |-> Err("norows", 0, <<>>)]
    ELSE LET header  == headerMap(f.rows[1])
             missing == {k \in 1..Len(requiredCols) : header[k] = 0}
             first   == CHOOSE k \in missing : \A j \in missing : k <= j
         IN  IF missing # {}
             THEN [campaigns |-> <<>>, err |-> Err("column", 0, requiredCols[first])]
             ELSE LoadRows(Tail(f.rows), header, 0, <<>>)

\* -------------------------------------------------------------- aggregates

totalName == <<"T", "O", "T", "A", "L">>

RECURSIVE SumInto(_, _)
SumInto(t, ms) ==
    IF ms = <<>> THEN t
    ELSE SumInto([t EXCEPT !.Impressions = @ + Head(ms).Impressions,
                           !.Clicks      = @ + Head(ms).Clicks,
                           !.Conversions = @ + Head(ms).Conversions,
                           !.Spend       = @ + Head(ms).Spend,
                           !.Revenue     = @ + Head(ms).Revenue],
                 Tail(ms))

\* Faulty variant of totalMetrics: the blended ROAS is the mean of the rows'
\* rounded ROAS values.
totalMetricsAveraged(ms) ==
    LET t == computeMetrics(SumInto([Name |-> totalName, Impressions |-> 0,
                                     Clicks |-> 0, Conversions |-> 0, Spend |-> 0,
                                     Revenue |-> 0], ms))
        RECURSIVE sumROAS(_)
        sumROAS(r) == IF r = <<>> THEN 0 ELSE Head(r).ROAS + sumROAS(Tail(r))
    IN  IF ms = <<>> THEN t ELSE [t EXCEPT !.ROAS = Round(sumROAS(ms), Len(ms))]

totalMetrics(ms) ==
    computeMetrics(SumInto([Name |-> totalName, Impressions |-> 0, Clicks |-> 0,
                            Conversions |-> 0, Spend |-> 0, Revenue |-> 0], ms))

\* ------------------------------------------------------------- filter, sort

\* Faulty variant of keep: a ROAS equal to the threshold is dropped.
keepStrict(m, min) == m.ROAS > min

\* m.ROAS >= *minROAS
keep(m, min) == m.ROAS >= min

RECURSIVE computeAndFilter(_, _, _)
computeAndFilter(cs, min, acc) ==
    IF cs = <<>> THEN acc
    ELSE LET m == computeMetrics(Head(cs))
         IN  computeAndFilter(Tail(cs), min, IF keep(m, min) THEN Append(acc, m) ELSE acc)

kCTR     == <<"c", "t", "r">>
kCVR     == <<"c", "v", "r">>
kCPA     == <<"c", "p", "a">>
kSpend   == <<"s", "p", "e", "n", "d">>
kRevenue == <<"r", "e", "v", "e", "n", "u", "e">>

\* Faulty variant of sortKey: the flag is compared as it was typed.
sortKeyAsTyped(s) == s

\* switch strings.ToLower(*sortBy)
sortKey(s) == ToLower(s)

\* The comparator handed to sort.Slice, for the switch value key.
less(key, x, y) ==
    CASE key = kCTR     -> x.CTR > y.CTR
      [] key = kCVR     -> x.CVR > y.CVR
      [] key = kCPA     -> x.CPA < y.CPA
      [] key = kSpend   -> x.Spend > y.Spend
      [] key = kRevenue -> x.Revenue > y.Revenue
      [] OTHER          -> x.ROAS > y.ROAS

Perms(n) == {p \in [1..n -> 1..n] : \A i, j \in 1..n : i # j => p[i] # p[j]}

\* What sort.Slice guarantees of its result: no element is less than one
\* placed before it.
IsSorted(s, key) == \A i, j \in 1..Len(s) : i < j => ~less(key, s[j], s[i])

\* The outcomes sort.Slice(ms, less) may leave in ms.
sortSlice(ms, key) ==
    {s \in {[i \in 1..Len(ms) |-> ms[p[i]]] : p \in Perms(Len(ms))} : IsSorted(s, key)}

\* ------------------------------------------------------------ best / worst

RECURSIVE scanLowestCPA(_, _)
scanLowestCPA(best, rest) ==
    IF rest = <<>> THEN best
    ELSE LET m == Head(rest)
         IN  scanLowestCPA(IF m.Conversions > 0 /\ m.CPA < best.CPA THEN m ELSE best,
                           Tail(rest))

\* The closure of the "Lowest CPA" line: best := all[0], then all[1:].
lowestCPAOf(ms) == scanLowestCPA(ms[1], Tail(ms))

\* ------------------------------------------------------------------ inputs

hdrStd  == <<<<"c", "a", "m", "p", "a", "i", "g", "n", "_", "n", "a", "m", "e">>, <<"i", "m", "p", "r", "e", "s", "s", "i", "o", "n", "s">>, <<"c", "l", "i", "c", "k", "s">>, <<"c", "o", "n", "v", "e", "r", "s", "i", "o", "n", "s">>, <<"s", "p", "e", "n", "d">>, <<"r", "e", "v", "e", "n", "u", "e">>>>
\* Other case, padding and column order.
hdrAlt  == <<<<"C", "a", "m", "p", "a", "i", "g", "n", "_", "N", "a", "m", "e">>, <<"I", "m", "p", "r", "e", "s", "s", "i", "o", "n", "s">>, <<"C", "l", "i", "c", "k", "s">>, <<"C", "o", "n", "v", "e", "r", "s", "i", "o", "n", "s">>, <<"R", "E", "V", "E", "N", "U", "E", " ">>, <<" ", "S", "p", "e", "n", "d">>>>
\* No revenue column.
hdrNoRev == <<<<"c", "a", "m", "p", "a", "i", "g", "n", "_", "n", "a", "m", "e">>, <<"i", "m", "p", "r", "e", "s", "s", "i", "o", "n", "s">>, <<"c", "l", "i", "c", "k", "s">>, <<"c", "o", "n", "v", "e", "r", "s", "i", "o", "n", "s">>, <<"s", "p", "e", "n", "d">>, <<"n", "o", "t", "e", "s">>>>

OtherHeaders == {hdrAlt, hdrNoRev}

rowG == <<<<"G">>, <<"1", "2", "0", "0", "0", "0">>, <<"4", "8", "0", "0">>, <<"3", "2", "0">>, <<"1", "8", "5", "0">>, <<"9", "2", "0", "0">>>>
rowA == <<<<"A", " ">>, <<"1", ",", "0", "0", "0">>, <<"1", "0", "0">>, <<"1", "0">>, <<"1", ",", "0", "0", "0", " ">>, <<"1", "0", "0", "0">>>>
rowB == <<<<"B">>, <<"5", "0", "0">>, <<"1", "6">>, <<"0">>, <<"1", "0">>, <<"5", "0">>>>
rowZ == <<<<"Z">>, <<"0">>, <<"0">>, <<"0">>, <<"0">>, <<"0">>>>
rowN == <<<<"N">>, <<"1", "0", "0">>, <<"1", "0">>, <<"1">>, <<"-", "5">>, <<"2", "0">>>>
rowE == <<<<"E">>, <<"1", "0", "0">>, <<"a", "b", "c">>, <<"1">>, <<"5">>, <<>>>>

Catalog == {rowG, rowA, rowB, rowZ, rowN, rowE}

DataRows(max) == UNION {[1..n -> Catalog] : n \in 0..max}

Files ==
    {[status |-> "ok", rows |-> <<hdrStd>> \o d] : d \in DataRows(MaxRows)}
    \cup {[status |-> "ok", rows |-> <<h>> \o d] : h \in OtherHeaders, d \in DataRows(MaxOtherRows)}
    \cup {[status |-> "noent", rows |-> <<>>], [status |-> "badcsv", rows |-> <<>>],
          [status |-> "ok", rows |-> <<>>]}

SortFlags == {<<"r", "o", "a", "s">>, <<"c", "t", "r">>, <<"c", "v", "r">>, <<"c", "p", "a">>, <<"s", "p", "e", "n", "d">>, <<"r", "e", "v", "e", "n", "u", "e">>,
              <<"C", "P", "A">>, <<"c", "l", "i", "c", "k", "s">>, <<>>}

MinROASFlags == {0, 100}

FilePaths == {<<>>, <<"c", ".", "c", "s", "v">>}

\* ------------------------------------------------------------------- main

\* loadCSV on each of Files (loadCSV reads nothing but the file).
loadResult == [f \in Files |-> loadCSV(f)]

NoFile == [status |-> "unread", rows |-> <<>>]

\* exitStatus while the process has not ended (no exit status is negative).
Running == 0 - 1

NoLine == [Name |-> <<>>]

NoMetrics == [Name |-> <<>>]

Init ==
    /\ filePath \in FilePaths
    /\ sortBy \in SortFlags
    /\ minROAS \in MinROASFlags
    /\ file = NoFile
    /\ pc = "flags"
    /\ campaigns = <<>>
    /\ loadErr = NoErr
    /\ unsorted = <<>>
    /\ all = <<>>
    /\ total = NoMetrics
    /\ stderr = <<>>
    /\ printed = FALSE
    /\ bestROAS = NoLine
    /\ lowestCPA = NoLine
    /\ exitStatus = Running

\* if *filePath == "" { ...; os.Exit(1) }
CheckFlags ==
    /\ pc = "flags"
    /\ IF filePath = <<>>
       THEN /\ stderr' = Append(stderr, "file-flag-required")
            /\ exitStatus' = 1
            /\ pc' = "exit"
       ELSE /\ pc' = "load"
            /\ UNCHANGED <<stderr, exitStatus>>
    /\ UNCHANGED <<filePath, sortBy, minROAS, file, campaigns, loadErr, unsorted,
                   all, total, printed, bestROAS, lowestCPA>>

\* campaigns, err := loadCSV(*filePath); if err != nil { ...; os.Exit(1) }
\* The file at filePath is read here: it is any of Files.
Load ==
    /\ pc = "load"
    /\ file' \in Files
    /\ LET r == loadResult[file']
       IN  /\ campaigns' = r.campaigns
           /\ loadErr' = r.err
           /\ IF r.err # NoErr
              THEN /\ stderr' = Append(stderr, "error")
                   /\ exitStatus' = 1
                   /\ pc' = "exit"
              ELSE /\ pc' = "empty"
                   /\ UNCHANGED <<stderr, exitStatus>>
    /\ UNCHANGED <<filePath, sortBy, minROAS, unsorted, all, total, printed,
                   bestROAS, lowestCPA>>

\* if len(campaigns) == 0 { ...Warning...; os.Exit(0) }
CheckEmpty ==
    /\ pc = "empty"
    /\ IF Len(campaigns) = 0
       THEN /\ stderr' = Append(stderr, "warning")
            /\ exitStatus' = 0
            /\ pc' = "exit"
       ELSE /\ pc' = "compute"
            /\ UNCHANGED <<stderr, exitStatus>>
    /\ UNCHANGED <<filePath, sortBy, minROAS, file, campaigns, loadErr, unsorted,
                   all, total, printed, bestROAS, lowestCPA>>

\* The compute-and-filter loop.
Compute ==
    /\ pc = "compute"
    /\ all' = computeAndFilter(campaigns, minROAS, <<>>)
    /\ unsorted' = all'
    /\ pc' = "sort"
    /\ UNCHANGED <<filePath, sortBy, minROAS, file, campaigns, loadErr, total,
                   stderr, printed, bestROAS, lowestCPA, exitStatus>>

\* sort.Slice(all, ...)
Sort ==
    /\ pc = "sort"
    /\ all' \in sortSlice(all, sortKey(sortBy))
    /\ pc' = "report"
    /\ UNCHANGED <<filePath, sortBy, minROAS, file, campaigns, loadErr, unsorted,
                   total, stderr, printed, bestROAS, lowestCPA, exitStatus>>

\* total := totalMetrics(all); the header; printTable(all); printSummary(total)
Report ==
    /\ pc = "report"
    /\ total' = totalMetrics(all)
    /\ printed' = TRUE
    /\ pc' = "best"
    /\ UNCHANGED <<filePath, sortBy, minROAS, file, campaigns, loadErr, unsorted,
                   all, stderr, bestROAS, lowestCPA, exitStatus>>

\* if len(all) > 1 { Best ROAS line; Lowest CPA line }, then main returns.
BestWorst ==
    /\ pc = "best"
    /\ IF Len(all) > 1
       THEN /\ bestROAS' = all[1]
            /\ lowestCPA' = lowestCPAOf(all)
       ELSE UNCHANGED <<bestROAS, lowestCPA>>
    /\ exitStatus' = 0
    /\ pc' = "exit"
    /\ UNCHANGED <<filePath, sortBy, minROAS, file, campaigns, loadErr, unsorted,
                   all, total, stderr, printed>>

Next == CheckFlags \/ Load \/ CheckEmpty \/ Compute \/ Sort \/ Report \/ BestWorst

Spec == Init /\ [][Next]_vars

\* ===================================================================== claims

Range(s) == {s[i] : i \in 1..Len(s)}

NonNeg(r) ==
    /\ r.Impressions >= 0 /\ r.Clicks >= 0 /\ r.Conversions >= 0
    /\ r.Spend >= 0 /\ r.Revenue >= 0

\* No loaded campaign holds a negative measure.
InputsNonNeg == \A c \in Range(campaigns) : NonNeg(c)

\* The filter loop has run.
Filtered == pc \in {"sort", "report", "best"} \/ (pc = "exit" /\ printed)

\* sort.Slice has run.
SortDone == pc \in {"report", "best"} \/ (pc = "exit" /\ printed)

\* totalMetrics has run.
Reported == pc = "best" \/ (pc = "exit" /\ printed)

\* The run ended after the best/worst section was printed.
BestPrinted == pc = "exit" /\ bestROAS # NoLine

\* Every Metrics the run holds: the rows of the table and the TOTAL record.
Produced == Range(all) \cup (IF Reported THEN {total} ELSE {})

SameMeasures(x, y) ==
    /\ x.Name = y.Name /\ x.Impressions = y.Impressions /\ x.Clicks = y.Clicks
    /\ x.Conversions = y.Conversions /\ x.Spend = y.Spend /\ x.Revenue = y.Revenue

\* r (in hundredths) is 0 on a zero denominator, else non-negative and within
\* half a hundredth of scale * num / den.
ZeroOrQuotient(r, num, den, scale) ==
    IF den = 0 THEN r = 0
    ELSE r >= 0 /\ 2 * Abs(r * den - 100 * scale * num) <= den

\* C1: for every Metrics computed from non-negative measures (each table row
\* and the TOTAL record), each of the six ratios is exactly 0 when its
\* denominator is 0 and otherwise the non-negative quotient (x100 for CTR and
\* CVR) to 2 decimals.
C1_ZeroDenominator ==
    \A m \in Produced :
        NonNeg(m) =>
            /\ ZeroOrQuotient(m.CTR, m.Clicks, m.Impressions, 100)
            /\ ZeroOrQuotient(m.CVR, m.Conversions, m.Clicks, 100)
            /\ ZeroOrQuotient(m.CPC, m.Spend, m.Clicks, 1)
            /\ ZeroOrQuotient(m.CPA, m.Spend, m.Conversions, 1)
            /\ ZeroOrQuotient(m.ROAS, m.Revenue, m.Spend, 1)
            /\ ZeroOrQuotient(m.RevPerConv, m.Revenue, m.Conversions, 1)

\* A finished report whose table holds the all-zero record and a record with
\* spend but no conversions, under a TOTAL of non-negative sums.
C1_Witness ==
    /\ pc = "exit" /\ printed /\ NonNeg(total)
    /\ \E m \in Range(all) :
           m.Impressions = 0 /\ m.Clicks = 0 /\ m.Conversions = 0
           /\ m.Spend = 0 /\ m.Revenue = 0
    /\ \E m \in Range(all) : m.Conversions = 0 /\ m.Spend > 0 /\ m.CPA = 0

\* C2: when the "Lowest CPA" line is printed over non-negative records and
\* some surviving record has conversions > 0, the selected record has
\* conversions > 0 and the least CPA among the surviving records with
\* conversions > 0.
C2_LowestCPAIgnoresZeroConversions ==
    (BestPrinted /\ InputsNonNeg /\ \E m \in Range(all) : m.Conversions > 0) =>
        /\ lowestCPA \in Range(all)
        /\ lowestCPA.Conversions > 0
        /\ \A m \in Range(all) : m.Conversions > 0 => lowestCPA.CPA <= m.CPA

\* Two records tie under the comparator of the selected key.
TiedKeys(key, x, y) == ~less(key, x, y) /\ ~less(key, y, x)

\* C3: the sorted sequence is the filtered sequence rearranged so that any two
\* records with equal values of the selected key keep their relative order.
C3_SortStable ==
    SortDone =>
        \E p \in Perms(Len(unsorted)) :
            /\ all = [i \in 1..Len(unsorted) |-> unsorted[p[i]]]
            /\ \A i, j \in 1..Len(all) :
                   (i < j /\ TiedKeys(sortKey(sortBy), all[i], all[j])) => p[i] < p[j]

\* s spells the lower-case word w, in any mix of cases.
CasePairs == {<<"C", "c">>, <<"P", "p">>, <<"A", "a">>, <<"T", "t">>, <<"R", "r">>,
              <<"V", "v">>, <<"S", "s">>, <<"E", "e">>, <<"N", "n">>, <<"D", "d">>,
              <<"U", "u">>, <<"O", "o">>}

Spells(s, w) ==
    /\ Len(s) = Len(w)
    /\ \A i \in 1..Len(w) : s[i] = w[i] \/ <<s[i], w[i]>> \in CasePairs

NonIncreasing(s, f(_)) == \A i, j \in 1..Len(s) : i < j => f(s[i]) >= f(s[j])

NonDecreasing(s, f(_)) == \A i, j \in 1..Len(s) : i < j => f(s[i]) <= f(s[j])

C5_FilterKeeps ==
    Filtered =>
        /\ unsorted = [k \in 1..Len(unsorted) |->
                          computeMetrics(SelectSeq(campaigns,
                              LAMBDA c : computeMetrics(c).ROAS >= minROAS)[k])]
        /\ Len(unsorted) =
               Cardinality({i \in 1..Len(campaigns) :
                               computeMetrics(campaigns[i]).ROAS >= minROAS})
        /\ \A k \in 1..Len(unsorted) :
               \E i \in 1..Len(campaigns) : SameMeasures(unsorted[k], campaigns[i])
        /\ (minROAS = 0 /\ InputsNonNeg) => Len(unsorted) = Len(campaigns)

\* The filter ran with a positive threshold, kept a record whose ROAS equals
\* the threshold and dropped another record.
C5_Witness ==
    /\ Filtered
    /\ minROAS > 0
    /\ \E m \in Range(unsorted) : m.ROAS = minROAS
    /\ Len(unsorted) < Len(campaigns)
    /\ Len(unsorted) >= 2

RECURSIVE SumOver(_, _, _)
SumOver(s, n, f) == IF n = 0 THEN 0 ELSE s[n][f] + SumOver(s, n - 1, f)

\* The record of the field-wise sums over ms.
SummedRecord(ms) ==
    [Name        |-> totalName,
     Impressions |-> SumOver(ms, Len(ms), "Impressions"),
     Clicks      |-> SumOver(ms, Len(ms), "Clicks"),
     Conversions |-> SumOver(ms, Len(ms), "Conversions"),
     Spend       |-> SumOver(ms, Len(ms), "Spend"),
     Revenue     |-> SumOver(ms, Len(ms), "Revenue")]

\* The table holds exactly a record with spend 1000, revenue 1000 and a
\* record with spend 10, revenue 50.
SkewedPair ==
    /\ Len(all) = 2
    /\ \E i, j \in 1..2 :
           /\ i # j
           /\ all[i].Spend = 1000 /\ all[i].Revenue = 1000
           /\ all[j].Spend = 10 /\ all[j].Revenue = 50

\* C6: TOTAL is computeMetrics of the field-wise sums over the filtered
\* records; over no records it is all zeros; over the skewed pair its ROAS
\* is 1.04 and not the average 3.00 of the two rounded ROAS values.
C6_TotalIsBlended ==
    Reported =>
        /\ total = computeMetrics(SummedRecord(all))
        /\ all = <<>> =>
               /\ total.Impressions = 0 /\ total.Clicks = 0 /\ total.Conversions = 0
               /\ total.Spend = 0 /\ total.Revenue = 0
               /\ total.CTR = 0 /\ total.CVR = 0 /\ total.CPC = 0
               /\ total.CPA = 0 /\ total.ROAS = 0 /\ total.RevPerConv = 0
        /\ SkewedPair =>
               /\ total.ROAS = 104
               /\ 2 * total.ROAS # all[1].ROAS + all[2].ROAS

\* A finished report over the skewed pair.
C6_Witness ==
    /\ pc = "exit" /\ printed
    /\ SkewedPair
    /\ all[1].ROAS + all[2].ROAS = 600
    /\ total.Spend = 1010 /\ total.Revenue = 1050

\* parseFloat reads the field as a number >= 0.
IsNonNegNumber(s) == parseFloat(s).ok /\ parseFloat(s).v >= 0

\* The (row, column) places of a file's data rows, rows counted from 1 over
\* the data rows and columns over numericCols, whose field is no number >= 0.
BadFields(f) ==
    LET header == headerMap(f.rows[1])
    IN  {rc \in (1..(Len(f.rows) - 1)) \X (1..Len(numericCols)) :
            ~IsNonNegNumber(f.rows[rc[1] + 1][header[numericCols[rc[2]]]])}

\* The first place of a set of places, in reading order.
FirstPlace(places) ==
    CHOOSE rc \in places :
        \A o \in places : rc[1] < o[1] \/ (rc[1] = o[1] /\ rc[2] <= o[2])

\* The file was read, holds all the required columns and at least one data row.
LoadedWithRows ==
    /\ pc \notin {"flags", "load"}
    /\ file.status = "ok"
    /\ Len(file.rows) >= 2
    /\ \A k \in 1..Len(requiredCols) : headerMap(file.rows[1])[k] # 0

\* C7: if some numeric field of some data row is not a number >= 0, loadCSV
\* returns no campaigns and an error naming the row and column of the first
\* such field, and main exits with status 1 and no report; otherwise it
\* returns one Campaign per data row, in order, all measures >= 0.
C7_LoadAllOrNothing ==
    LoadedWithRows =>
        IF BadFields(file) # {}
        THEN LET rc == FirstPlace(BadFields(file))
             IN  /\ campaigns = <<>>
                 /\ loadErr = Err("field", rc[1] + 1, requiredCols[numericCols[rc[2]]])
                 /\ pc = "exit" /\ exitStatus = 1 /\ ~printed
        ELSE /\ loadErr = NoErr
             /\ Len(campaigns) = Len(file.rows) - 1
             /\ InputsNonNeg

\* C8: a readable file with a valid header row and no data rows ends the run
\* with a warning, no report and exit status 0; a non-zero exit status comes
\* only with a missing --file or a load failure.
C8_EmptyInputIsWarning ==
    pc = "exit" =>
        /\ (/\ file.status = "ok"
            /\ Len(file.rows) = 1
            /\ \A k \in 1..Len(requiredCols) : headerMap(file.rows[1])[k] # 0)
           => (exitStatus = 0 /\ stderr = <<"warning">> /\ ~printed)
        /\ exitStatus # 0 => (filePath = <<>> \/ loadErr # NoErr)

\* r (in hundredths) is scale * num / den rounded to the nearest hundredth,
\* a half rounded away from zero; 0 on a zero denominator.
NearestAway(r, num, den, scale) ==
    IF den = 0 THEN r = 0
    ELSE LET x == 100 * scale * num
         IN  /\ 2 * Abs(r * den - x) <= Abs(den)
             /\ 2 * Abs(r * den - x) = Abs(den) => Abs(r * den) > Abs(x)

SortKeys == {<<"r", "o", "a", "s">>, kCTR, kCVR, kCPA, kSpend, kRevenue}

\* C10: when the best/worst section is printed over non-negative records
\* under one of the six sort keys, the record on the "Best ROAS" line is the
\* first of the sorted sequence and no surviving record has a greater ROAS.
C10_BestROASIsGreatest ==
    (BestPrinted /\ InputsNonNeg /\ sortBy \in SortKeys) =>
        /\ bestROAS = all[1]
        /\ \A m \in Range(all) : bestROAS.ROAS >= m.ROAS

====
